---- MODULE Spec2Model ----
(***************************************************************************)
(* gitlab_migration.py: the recursion driver (migrate_group), the group    *)
(* resolver (create_target_group_structure), the thread pool of            *)
(* migrate_group and the per-project worker (migrate_project), as a state  *)
(* machine.  Every call to the GitLab API is one step; its result is taken *)
(* from the results the API client can give (a value, GitlabGetError,      *)
(* another exception).                                                     *)
(***************************************************************************)
EXTENDS Integers, Sequences, FiniteSets, TLC

(* ------------------------------------------------------------------ *)
(* Bounds of the model                                                *)
(* ------------------------------------------------------------------ *)

\* The most refreshes of one polling loop that answer a status that is not final.
MaxPolls == 1

\* The largest --max-workers value tried.
MaxWorkers == 2

(* ------------------------------------------------------------------ *)
(* Program constants                                                  *)
(* ------------------------------------------------------------------ *)

\* file_size_mb = len(export_file) / (1024 * 1024)
BytesPerMB == 1048576

\* if file_size_mb > 200: raise the timeout
LargeThresholdMB == 200

\* thread_target_gl.timeout = max(original_timeout, 120)
LargeTimeout == 120

\* --timeout default
DefaultTimeout == 30

(* ------------------------------------------------------------------ *)
(* The source instance: groups and projects                           *)
(* ------------------------------------------------------------------ *)

Groups == {1, 2, 3}

\* The full path of each source group, as its segments.
GroupPath(g) ==
    CASE g = 1 -> <<"team", "alpha">>
      [] g = 2 -> <<"team", "alpha", "beta">>
      [] g = 3 -> <<"team", "alpha", "gamma">>

RootGroup == 1

SrcVisibility(g) ==
    CASE g = 1 -> "private"
      [] g = 2 -> "internal"
      [] g = 3 -> "public"

ProjIds == {1, 2, 3, 4, 5}

ProjName(p) ==
    CASE p = 1 -> "svc1"
      [] p = 2 -> "svc2"
      [] p = 3 -> "core"
      [] p = 4 -> "svc3"
      [] p = 5 -> "svc5"

\* A project's path may differ from its name (project 2), and one project's name
\* may be another project's path (project 3's name is project 2's path).
ProjPath(p) ==
    CASE p = 1 -> "svc1"
      [] p = 2 -> "core"
      [] p = 3 -> "svc3"
      [] p = 4 -> "svc3"
      [] p = 5 -> "svc5"

ProjGroup(p) ==
    CASE p \in {1, 2, 3} -> 1
      [] p = 4 -> 2
      [] p = 5 -> 3

Paths == {"svc1", "svc2", "core", "svc3", "svc5"}

\* Source trees: what source_group.projects.list and source_group.subgroups.list
\* answer for each group.
FullTree ==
    [projects  |-> [g \in Groups |-> CASE g = 1 -> <<1, 2, 3>>
                                       [] g = 2 -> <<4>>
                                       [] g = 3 -> <<5>>],
     subgroups |-> [g \in Groups |-> IF g = 1 THEN <<2, 3>> ELSE <<>>]]

\* team/alpha with two projects and team/alpha/beta with one.
SmallTree ==
    [projects  |-> [g \in Groups |-> CASE g = 1 -> <<1, 2>>
                                       [] g = 2 -> <<4>>
                                       [] g = 3 -> <<>>],
     subgroups |-> [g \in Groups |-> IF g = 1 THEN <<2>> ELSE <<>>]]

Range(s) == {s[i] : i \in 1..Len(s)}

Max(a, b) == IF a >= b THEN a ELSE b

\* Every prefix of a group path: the target groups the resolver looks up.
Prefixes == UNION {{SubSeq(GroupPath(g), 1, i) : i \in 1..Len(GroupPath(g))} : g \in Groups}

\* The id of the project the target holds at path x before the run; a project a
\* worker imports gets the id of its source project.
PreId(x) ==
    CASE x = "svc1" -> -1
      [] x = "core" -> -2
      [] x = "svc2" -> -3
      [] x = "svc3" -> -4
      [] x = "svc5" -> -5

VARIABLES
    overwrite,      \* args.overwrite
    max_workers,    \* args.max_workers
    timeout0,       \* args.timeout: the timeout of source_gl and target_gl
    srcTree,        \* the source instance's groups and projects (never changes)
    fileSizes,      \* the sizes the source's export artifacts can have
    apiFaults,      \* whether the workers' API calls can fail in this run
    tgtVis,         \* target groups: prefix path -> visibility, or "absent"
    target,         \* target projects: group -> path -> id of the project there, 0 if none
    runState,       \* "running", "done" (main logs completion) or "exit" (sys.exit(1))
    stack,          \* the call stack of migrate_group, the innermost call last
    success_count,  \* per call of migrate_group (per group)
    failed_count,
    logged,         \* the tally logged at line 320, per group
    visited,        \* times migrate_group was called for each group
    queue,          \* the executor's work queue: submitted, not started
    counted,        \* times the as_completed loop handled the future of each project
    worker,         \* the locals of each migrate_project invocation, until its
                    \* future is handled
    starts,         \* times each project was handed to migrate_project
    run,            \* "first" or "second" invocation of the script
    migratedBefore  \* projects the first invocation migrated

cfgVars == <<overwrite, max_workers, timeout0, srcTree, fileSizes, apiFaults>>
tgtVars == <<tgtVis, target>>
tallyVars == <<success_count, failed_count, logged>>
runVars == <<run, migratedBefore>>

vars == <<overwrite, max_workers, timeout0, srcTree, fileSizes, apiFaults, tgtVis, target,
          runState, stack, success_count, failed_count, logged, visited, queue,
          counted, worker, starts, run, migratedBefore>>

(* ------------------------------------------------------------------ *)
(* Initial states                                                     *)
(* ------------------------------------------------------------------ *)

\* The locals of one migrate_project invocation.  session: the worker has built
\* thread_source_gl and thread_target_gl; timeout: thread_target_gl.timeout.
\* handle: the session the object in import_project is bound to ("own" when
\* thread_target_gl answered it, "shared" when target_gl did).
\* History kept with them: exports and imports (export jobs created, imports
\* submitted), and reason (the line that ended it).
IdleWorker ==
    [pc |-> "idle", result |-> "none", outcome |-> "none", reason |-> "none",
     session |-> FALSE, timeout |-> 0, original_timeout |-> 0,
     existing_project |-> 0, export_status |-> "none", import_status |-> "none",
     handle |-> "none", polls |-> 0, file_size |-> 0, exports |-> 0, imports |-> 0]

NoTargetGroups == [x \in Prefixes |-> "absent"]

NoTargetProjects == [g \in Groups |-> [x \in Paths |-> 0]]

\* The target before the run: empty; or only the top-level group team; or team and
\* team/alpha, with some projects already in team/alpha.
EmptyTarget == [vis |-> NoTargetGroups, projects |-> NoTargetProjects]

TeamOnlyTarget ==
    [vis |-> [NoTargetGroups EXCEPT ![<<"team">>] = "public"],
     projects |-> NoTargetProjects]

AlphaTarget(S) ==
    [vis |-> [NoTargetGroups EXCEPT ![<<"team">>] = "public",
                                    ![<<"team", "alpha">>] = "private"],
     projects |-> [NoTargetProjects EXCEPT ![1] =
                      [x \in Paths |-> IF x \in S THEN PreId(x) ELSE 0]]]

TargetInits == {EmptyTarget, TeamOnlyTarget, AlphaTarget({"svc1", "core"})}

\* len(export_file): at the threshold of line 221, and just above it.
FileSizes == {LargeThresholdMB * BytesPerMB, LargeThresholdMB * BytesPerMB + 1}

\* main() has connected and calls migrate_group(source_gl, target_gl, args.source_group).
InitWith(ows, ks, tos, trees, sizes, tgts, faults) ==
    /\ apiFaults = faults
    /\ overwrite \in ows
    /\ max_workers \in ks
    /\ timeout0 \in tos
    /\ srcTree \in trees
    /\ fileSizes \in sizes
    /\ \E t \in tgts : tgtVis = t.vis /\ target = t.projects
    /\ runState = "running"
    /\ stack = <<[g |-> RootGroup, pc |-> "get_source", i |-> 1, parent |-> <<>>,
                  subs |-> <<>>]>>
    /\ success_count = [g \in Groups |-> 0]
    /\ failed_count = [g \in Groups |-> 0]
    /\ logged = [g \in Groups |-> <<>>]
    /\ visited = [g \in Groups |-> IF g = RootGroup THEN 1 ELSE 0]
    /\ queue = <<>>
    /\ counted = [p \in ProjIds |-> 0]
    /\ worker = [p \in ProjIds |-> IdleWorker]
    /\ starts = [p \in ProjIds |-> 0]
    /\ run = "first"
    /\ migratedBefore = {}

Init ==
    InitWith(BOOLEAN, 1..MaxWorkers, {DefaultTimeout}, {FullTree},
             {{LargeThresholdMB * BytesPerMB + 1}}, TargetInits, TRUE)

(* ------------------------------------------------------------------ *)
(* migrate_project: the worker                                        *)
(* ------------------------------------------------------------------ *)

\* A migrate_project invocation that has started and not yet returned or raised.
Active(p) == worker[p].pc \notin {"idle", "queued", "done", "collected"}

ActiveWorkers == {p \in ProjIds : Active(p)}

\* The invocation ends: it returns res ("object" or "None") or raises ("raised").
\* outcome and reason name the line that ended it.
Returned(w, res, out, why) ==
    [w EXCEPT !.pc = "done", !.result = res, !.outcome = out, !.reason = why,
              !.existing_project = 0, !.original_timeout = 0, !.export_status = "none",
              !.import_status = "none", !.handle = "none", !.polls = 0,
              !.file_size = 0]

\* Mutant of CanStart: the pool runs one thread more than max_workers.
CanStart_OffByOne == Cardinality(ActiveWorkers) <= max_workers

\* ThreadPoolExecutor(max_workers=max_workers): a pool thread is free.
CanStart == Cardinality(ActiveWorkers) < max_workers

\* Lines 128-141, outside the try: the executor runs migrate_project(project), which
\* builds its two sessions; an exception there leaves the function.
StartWorker(p) ==
    /\ queue # <<>>
    /\ Head(queue) = p
    /\ CanStart
    /\ queue' = Tail(queue)
    /\ starts' = [starts EXCEPT ![p] = @ + 1]
    /\ \/ worker' = [worker EXCEPT ![p] =
                        [@ EXCEPT !.pc = "check_name", !.session = TRUE,
                                  !.timeout = timeout0]]
       \/ /\ apiFaults
          /\ worker' = [worker EXCEPT ![p] =
                           Returned(@, "raised", "RAISED", "session")]
    /\ UNCHANGED <<cfgVars, tgtVars, tallyVars, runState, stack, visited, counted,
                   runVars>>

\* thread_target_gl.projects.get(group/x): the project, GitlabGetError because there
\* is none (404), GitlabGetError for another HTTP error, or another exception.
LookupResults(g, x) ==
    (IF target[g][x] # 0 THEN {"found"} ELSE {"not_found"})
        \cup (IF apiFaults THEN {"get_error", "other"} ELSE {})

\* Mutant of AfterCheckName: an existing target project is deleted whatever
\* overwrite says.
AfterCheckName_DeletesAnyway(w, r, id) ==
    CASE r = "found" -> [w EXCEPT !.pc = "del_name", !.existing_project = id]
      [] r \in {"not_found", "get_error"} -> [w EXCEPT !.pc = "fetch"]
      [] r = "other" ->
            IF overwrite THEN [w EXCEPT !.pc = "fetch"]
            ELSE Returned(w, "None", "FAILED", "check")

\* Mutant of AfterCheckName: an existing target project is not skipped when
\* overwrite is false.
AfterCheckName_NoSkip(w, r, id) ==
    CASE r = "found" ->
            IF overwrite
            THEN [w EXCEPT !.pc = "del_name", !.existing_project = id]
            ELSE [w EXCEPT !.pc = "fetch"]
      [] r \in {"not_found", "get_error"} -> [w EXCEPT !.pc = "fetch"]
      [] r = "other" ->
            IF overwrite THEN [w EXCEPT !.pc = "fetch"]
            ELSE Returned(w, "None", "FAILED", "check")

\* Lines 149-170, after the lookup by name.
AfterCheckName(w, r, id) ==
    CASE r = "found" ->
            IF overwrite
            THEN [w EXCEPT !.pc = "del_name", !.existing_project = id]
            ELSE Returned(w, "None", "SKIPPED", "exists")
      [] r \in {"not_found", "get_error"} -> [w EXCEPT !.pc = "fetch"]
      [] r = "other" ->
            IF overwrite THEN [w EXCEPT !.pc = "fetch"]
            ELSE Returned(w, "None", "FAILED", "check")

CheckName(p) ==
    /\ worker[p].pc = "check_name"
    /\ \E r \in LookupResults(ProjGroup(p), ProjName(p)) :
          worker' = [worker EXCEPT ![p] =
                        AfterCheckName(@, r,
                                       target[ProjGroup(p)][ProjName(p)])]
    /\ UNCHANGED <<cfgVars, tgtVars, tallyVars, runState, stack, visited, queue,
                   counted, starts, runVars>>

\* The target without the project whose id is id.
Deleted(g, id) ==
    [target EXCEPT ![g] = [x \in Paths |-> IF target[g][x] = id THEN 0 ELSE target[g][x]]]

Exists(g, id) == \E x \in Paths : target[g][x] = id

\* Lines 153-156 and, when the delete raises, the handler of lines 163-170.
AfterDeleteByName(w, ok) ==
    IF ok \/ overwrite THEN [w EXCEPT !.pc = "fetch"]
    ELSE Returned(w, "None", "FAILED", "check")

\* existing_project.delete() in the check by name.
DeleteByName(p) ==
    /\ worker[p].pc = "del_name"
    /\ \/ /\ Exists(ProjGroup(p), worker[p].existing_project)
          /\ target' = Deleted(ProjGroup(p), worker[p].existing_project)
          /\ worker' = [worker EXCEPT ![p] = AfterDeleteByName(@, TRUE)]
       \/ /\ apiFaults \/ ~Exists(ProjGroup(p), worker[p].existing_project)
          /\ worker' = [worker EXCEPT ![p] = AfterDeleteByName(@, FALSE)]
          /\ UNCHANGED target
    /\ UNCHANGED <<cfgVars, tgtVis, tallyVars, runState, stack, visited, queue,
                   counted, starts, runVars>>

\* Lines 174-179: thread_source_gl.projects.get(project.id).  When it raises, the
\* handler of lines 272-274 formats thread_project.name, which is not bound yet: the
\* UnboundLocalError leaves migrate_project.
FetchSource(p) ==
    /\ worker[p].pc = "fetch"
    /\ \/ worker' = [worker EXCEPT ![p] =
                        [@ EXCEPT !.pc = IF ProjPath(p) # ProjName(p)
                                         THEN "check_path" ELSE "export"]]
       \/ /\ apiFaults
          /\ worker' = [worker EXCEPT ![p] =
                           Returned(@, "raised", "RAISED", "fetch")]
    /\ UNCHANGED <<cfgVars, tgtVars, tallyVars, runState, stack, visited, queue,
                   counted, starts, runVars>>

\* Lines 180-193, after the lookup by path.
AfterCheckPath(w, r, id) ==
    CASE r = "found" ->
            IF overwrite
            THEN [w EXCEPT !.pc = "del_path", !.existing_project = id]
            ELSE Returned(w, "None", "SKIPPED", "exists")
      [] r \in {"not_found", "get_error"} -> [w EXCEPT !.pc = "export"]
      [] r = "other" -> Returned(w, "None", "FAILED", "check")

CheckPath(p) ==
    /\ worker[p].pc = "check_path"
    /\ \E r \in LookupResults(ProjGroup(p), ProjPath(p)) :
          worker' = [worker EXCEPT ![p] =
                        AfterCheckPath(@, r,
                                       target[ProjGroup(p)][ProjPath(p)])]
    /\ UNCHANGED <<cfgVars, tgtVars, tallyVars, runState, stack, visited, queue,
                   counted, starts, runVars>>

\* Lines 184-185 and, when the delete raises, the handler of lines 191-193.
AfterDeleteByPath(w, ok) ==
    IF ok THEN [w EXCEPT !.pc = "export"]
    ELSE Returned(w, "None", "FAILED", "check")

\* existing_project.delete() in the check by path.
DeleteByPath(p) ==
    /\ worker[p].pc = "del_path"
    /\ \/ /\ Exists(ProjGroup(p), worker[p].existing_project)
          /\ target' = Deleted(ProjGroup(p), worker[p].existing_project)
          /\ worker' = [worker EXCEPT ![p] = AfterDeleteByPath(@, TRUE)]
       \/ /\ apiFaults \/ ~Exists(ProjGroup(p), worker[p].existing_project)
          /\ worker' = [worker EXCEPT ![p] = AfterDeleteByPath(@, FALSE)]
          /\ UNCHANGED target
    /\ UNCHANGED <<cfgVars, tgtVis, tallyVars, runState, stack, visited, queue,
                   counted, starts, runVars>>

\* ExportJob and ImportJob statuses, and how far along each is.
ExportStatuses == {"queued", "started", "finished", "failed"}

ImportStatuses == {"scheduled", "started", "finished", "failed"}

Rank(s) == CASE s \in {"queued", "scheduled"} -> 0
             [] s = "started" -> 1
             [] s \in {"finished", "failed"} -> 2

\* What a refresh can answer after status s was seen and n refreshes were not final:
\* a job does not go back, a final status stays, and the wait ends.
NextStatuses(all, s, n) ==
    {t \in all : /\ Rank(t) >= Rank(s)
                 /\ (Rank(s) = 2 => t = s)
                 /\ (n >= MaxPolls => Rank(t) = 2)}

\* The handler of lines 272-274, thread_project being bound: return None.
Caught(w) == Returned(w, "None", "FAILED", "exception")

\* Line 197: thread_project.exports.create().
ExportCreate(p) ==
    /\ worker[p].pc = "export"
    /\ \/ worker' = [worker EXCEPT ![p] =
                        [@ EXCEPT !.pc = "export_refresh", !.exports = @ + 1]]
       \/ /\ apiFaults
          /\ worker' = [worker EXCEPT ![p] = Caught(@)]
    /\ UNCHANGED <<cfgVars, tgtVars, tallyVars, runState, stack, visited, queue,
                   counted, starts, runVars>>

\* Line 198 and the loop test of line 201: the first export.refresh().
AfterExportRefresh(w, s) ==
    [w EXCEPT !.export_status = s, !.polls = 0,
              !.pc = IF s # "finished" THEN "export_poll" ELSE "download"]

ExportRefresh(p) ==
    /\ worker[p].pc = "export_refresh"
    /\ \/ \E s \in ExportStatuses :
             worker' = [worker EXCEPT ![p] = AfterExportRefresh(@, s)]
       \/ /\ apiFaults
          /\ worker' = [worker EXCEPT ![p] = Caught(@)]
    /\ UNCHANGED <<cfgVars, tgtVars, tallyVars, runState, stack, visited, queue,
                   counted, starts, runVars>>

\* Mutant of AfterExportPoll: the test of line 204 is missing and a failed export
\* leaves the loop like a finished one.
AfterExportPoll_FailedIgnored(w, s) ==
    IF s \notin {"finished", "failed"}
    THEN [w EXCEPT !.export_status = s, !.polls = @ + 1]
    ELSE [w EXCEPT !.export_status = s, !.pc = "download"]

\* Lines 201-206: one turn of the loop, after its export.refresh() answered s.
AfterExportPoll(w, s) ==
    IF s = "failed" THEN Returned(w, "None", "FAILED", "export_failed")
    ELSE IF s # "finished"
         THEN [w EXCEPT !.export_status = s, !.polls = @ + 1]
         ELSE [w EXCEPT !.export_status = s, !.pc = "download"]

ExportPoll(p) ==
    /\ worker[p].pc = "export_poll"
    /\ \/ \E s \in NextStatuses(ExportStatuses, worker[p].export_status,
                                worker[p].polls) :
             worker' = [worker EXCEPT ![p] = AfterExportPoll(@, s)]
       \/ /\ apiFaults
          /\ worker' = [worker EXCEPT ![p] = Caught(@)]
    /\ UNCHANGED <<cfgVars, tgtVars, tallyVars, runState, stack, visited, queue,
                   counted, starts, runVars>>

\* Line 221: file_size_mb > 200, with file_size_mb = size / (1024 * 1024).
IsLarge(size) == size > LargeThresholdMB * BytesPerMB

\* Lines 220-224: the timeout of thread_target_gl for the import call.
ImportTimeout(original, size) ==
    IF IsLarge(size) THEN Max(original, LargeTimeout) ELSE original

\* Lines 209-224: export.download(), then the timeout for the import.
AfterDownload(w, size) ==
    [w EXCEPT !.pc = "import", !.file_size = size, !.original_timeout = w.timeout,
              !.timeout = ImportTimeout(w.timeout, size)]

Download(p) ==
    /\ worker[p].pc = "download"
    /\ \/ \E size \in fileSizes :
             worker' = [worker EXCEPT ![p] = AfterDownload(@, size)]
       \/ /\ apiFaults
          /\ worker' = [worker EXCEPT ![p] = Caught(@)]
    /\ UNCHANGED <<cfgVars, tgtVars, tallyVars, runState, stack, visited, queue,
                   counted, starts, runVars>>

\* Mutant of RestoreTimeout: the timeout is not set back.
RestoreTimeout_Missing(w) == w

\* Lines 236 and 247: thread_target_gl.timeout = original_timeout.
RestoreTimeout(w) == [w EXCEPT !.timeout = w.original_timeout]

\* What import_project returns: a dict with or without an id, or an object whose
\* import_status is one of the statuses, or that has no such attribute ("absent").
ObjectStatuses == ImportStatuses \cup {"absent"}

ImportResponses == {"dict_id", "dict_noid"} \cup ObjectStatuses

\* Mutant of AfterImport: the loop of line 262 is skipped for a refetched object.
AfterImport_RefetchedIsFinished(w, resp) ==
    CASE resp = "dict_noid" -> Returned(w, "None", "FAILED", "no_id")
      [] resp = "dict_id" -> [w EXCEPT !.pc = "refetch"]
      [] resp \in {"finished", "absent"} \/ w.pc = "refetched" ->
            Returned(w, "object", "MIGRATED", "migrated")
      [] OTHER -> [w EXCEPT !.pc = "import_poll", !.import_status = resp, !.polls = 0,
                            !.handle = "own"]

\* Lines 251-262: what the worker does with the import's answer: the dict handling
\* of lines 251-259, then the first test of the loop of line 262 on the object
\* import_project holds (the one the import answered or, from "refetched", the one
\* target_gl.projects.get answered).
AfterImport(w, resp) ==
    CASE resp = "dict_noid" -> Returned(w, "None", "FAILED", "no_id")
      [] resp = "dict_id" -> [w EXCEPT !.pc = "refetch"]
      [] resp \in {"finished", "absent"} -> Returned(w, "object", "MIGRATED", "migrated")
      [] OTHER -> [w EXCEPT !.pc = "import_poll", !.import_status = resp, !.polls = 0,
                            !.handle = IF w.pc = "refetched" THEN "shared" ELSE "own"]

\* Lines 226-247: thread_target_gl.projects.import_project(path=target_path, ...).
\* The target refuses a path that is taken; an exception goes through the handler
\* of line 234 and the one of line 272, which returns None.
Import(p) ==
    /\ worker[p].pc = "import"
    /\ \/ /\ target[ProjGroup(p)][ProjPath(p)] = 0
          /\ target' = [target EXCEPT ![ProjGroup(p)][ProjPath(p)] = p]
          /\ \E resp \in ImportResponses :
                worker' = [worker EXCEPT ![p] =
                              AfterImport([RestoreTimeout(@) EXCEPT !.imports = @ + 1],
                                          resp)]
       \/ /\ apiFaults \/ target[ProjGroup(p)][ProjPath(p)] # 0
          /\ worker' = [worker EXCEPT ![p] = Caught(RestoreTimeout(@))]
          /\ UNCHANGED target
    /\ UNCHANGED <<cfgVars, tgtVis, tallyVars, runState, stack, visited, queue,
                   counted, starts, runVars>>

\* The session the worker's next API call goes through: line 259 calls
\* target_gl.projects.get, and the refresh() of an object that call answered goes
\* through target_gl too; every other call thread_source_gl or thread_target_gl.
CallSession(w) ==
    IF w.pc = "refetch" \/ (w.pc = "import_poll" /\ w.handle = "shared")
    THEN "shared" ELSE "own"

\* Line 259: import_project = target_gl.projects.get(project_id), answering an
\* object whose import_status is s (or that has none).
AfterRefetch(w, s) == [w EXCEPT !.pc = "refetched", !.import_status = s]

\* The call raises when it fails, and when the imported project is gone.
Refetch(p) ==
    /\ worker[p].pc = "refetch"
    /\ \/ /\ target[ProjGroup(p)][ProjPath(p)] = p
          /\ \E s \in ObjectStatuses :
                worker' = [worker EXCEPT ![p] = AfterRefetch(@, s)]
       \/ /\ apiFaults \/ target[ProjGroup(p)][ProjPath(p)] # p
          /\ worker' = [worker EXCEPT ![p] = Caught(@)]
    /\ UNCHANGED <<cfgVars, tgtVars, tallyVars, runState, stack, visited, queue,
                   counted, starts, runVars>>

\* Line 262, on the refetched object: the first test of the polling loop.
ImportLoopTest(p) ==
    /\ worker[p].pc = "refetched"
    /\ worker' = [worker EXCEPT ![p] = AfterImport(@, @.import_status)]
    /\ UNCHANGED <<cfgVars, tgtVars, tallyVars, runState, stack, visited, queue,
                   counted, starts, runVars>>

\* Mutant of AfterImportPoll: the loop does not see that the import finished.
AfterImportPoll_NeverFinished(w, s) ==
    IF s = "failed" THEN Returned(w, "None", "FAILED", "import_failed")
    ELSE [w EXCEPT !.import_status = s,
                   !.polls = IF s # "finished" THEN @ + 1 ELSE @]

\* Lines 262-267: one turn of the loop, after import_project.refresh() answered s.
AfterImportPoll(w, s) ==
    IF s = "failed" THEN Returned(w, "None", "FAILED", "import_failed")
    ELSE IF s # "finished"
         THEN [w EXCEPT !.import_status = s, !.polls = @ + 1]
         ELSE Returned(w, "object", "MIGRATED", "migrated")

\* import_project.refresh() raises when it fails, and when the project is gone.
ImportPoll(p) ==
    /\ worker[p].pc = "import_poll"
    /\ \/ /\ target[ProjGroup(p)][ProjPath(p)] = p
          /\ \E s \in NextStatuses(ImportStatuses, worker[p].import_status,
                                   worker[p].polls) :
                worker' = [worker EXCEPT ![p] = AfterImportPoll(@, s)]
       \/ /\ apiFaults \/ target[ProjGroup(p)][ProjPath(p)] # p
          /\ worker' = [worker EXCEPT ![p] = Caught(@)]
    /\ UNCHANGED <<cfgVars, tgtVars, tallyVars, runState, stack, visited, queue,
                   counted, starts, runVars>>

WorkerStep(p) ==
    \/ StartWorker(p)
    \/ CheckName(p)
    \/ DeleteByName(p)
    \/ FetchSource(p)
    \/ CheckPath(p)
    \/ DeleteByPath(p)
    \/ ExportCreate(p)
    \/ ExportRefresh(p)
    \/ ExportPoll(p)
    \/ Download(p)
    \/ Import(p)
    \/ Refetch(p)
    \/ ImportLoopTest(p)
    \/ ImportPoll(p)

(* ------------------------------------------------------------------ *)
(* migrate_group: the recursion driver and the coordinator            *)
(* ------------------------------------------------------------------ *)

\* The running call of migrate_group.
Top == stack[Len(stack)]

Running == runState = "running" /\ stack # <<>>

NewFrame(g) == [g |-> g, pc |-> "get_source", i |-> 1, parent |-> <<>>, subs |-> <<>>]

\* Line 281: get_source_group(source_gl, source_group_path).
GetSourceGroup ==
    /\ Running
    /\ Top.pc = "get_source"
    /\ stack' = [stack EXCEPT ![Len(stack)] = [@ EXCEPT !.pc = "resolve"]]
    /\ UNCHANGED <<cfgVars, tgtVars, tallyVars, runState, visited, queue, counted,
                   worker, starts, runVars>>

\* Lines 77-79: the group is not found and get_source_group ends the process; any
\* other exception reaches main(), which ends it too (lines 345-347).
GetSourceGroupFail ==
    /\ Running
    /\ Top.pc = "get_source"
    /\ runState' = "exit"
    /\ UNCHANGED <<cfgVars, tgtVars, tallyVars, stack, visited, queue, counted,
                   worker, starts, runVars>>

\* Lines 93-97: current_path in turn i of the loop of create_target_group_structure.
CurrentPath(f) == SubSeq(GroupPath(f.g), 1, f.i)

\* Lines 119-121: parent_group = group, then the next part or the return.
NextPart(f, group) ==
    IF f.i = Len(GroupPath(f.g))
    THEN [f EXCEPT !.pc = "list_projects", !.parent = group]
    ELSE [f EXCEPT !.pc = "resolve", !.i = @ + 1, !.parent = group]

\* Lines 99-103: target_gl.groups.get(current_path): the group, or GitlabGetError.
ResolveLookup ==
    /\ Running
    /\ Top.pc = "resolve"
    /\ stack' = [stack EXCEPT ![Len(stack)] =
                    IF tgtVis[CurrentPath(@)] # "absent"
                    THEN NextPart(@, CurrentPath(@))
                    ELSE [@ EXCEPT !.pc = "create"]]
    /\ UNCHANGED <<cfgVars, tgtVars, tallyVars, runState, visited, queue, counted,
                   worker, starts, runVars>>

\* Line 103 catches every GitlabGetError, also one raised for an HTTP error that is
\* not 404.
ResolveLookupGetError ==
    /\ Running
    /\ Top.pc = "resolve"
    /\ stack' = [stack EXCEPT ![Len(stack)] = [@ EXCEPT !.pc = "create"]]
    /\ UNCHANGED <<cfgVars, tgtVars, tallyVars, runState, visited, queue, counted,
                   worker, starts, runVars>>

\* An exception that is not GitlabGetError leaves create_target_group_structure and
\* every migrate_group call above it; main() ends the process.
ResolveLookupFail ==
    /\ Running
    /\ Top.pc = "resolve"
    /\ runState' = "exit"
    /\ UNCHANGED <<cfgVars, tgtVars, tallyVars, stack, visited, queue, counted,
                   worker, starts, runVars>>

\* Mutant of CreatedVisibility: the visibility of the group main() was started on.
CreatedVisibility_TopLevel(g) == SrcVisibility(RootGroup)

\* Line 108: 'visibility': source_group.visibility, source_group being the group of
\* the running migrate_group call.
CreatedVisibility(g) == SrcVisibility(g)

\* Lines 105-117: target_gl.groups.create(group_data).
ResolveCreate ==
    /\ Running
    /\ Top.pc = "create"
    /\ tgtVis[CurrentPath(Top)] = "absent"
    /\ IF Top.i = 1 THEN TRUE ELSE tgtVis[Top.parent] # "absent"
    /\ tgtVis' = [tgtVis EXCEPT ![CurrentPath(Top)] = CreatedVisibility(Top.g)]
    /\ stack' = [stack EXCEPT ![Len(stack)] = NextPart(@, CurrentPath(@))]
    /\ UNCHANGED <<cfgVars, target, tallyVars, runState, visited, queue, counted,
                   worker, starts, runVars>>

ResolveCreateFail ==
    /\ Running
    /\ Top.pc = "create"
    /\ runState' = "exit"
    /\ UNCHANGED <<cfgVars, tgtVars, tallyVars, stack, visited, queue, counted,
                   worker, starts, runVars>>

\* Mutant of ListedProjects: the listing includes the projects of the first subgroup.
ListedProjects_WithSubgroup(g) ==
    srcTree.projects[g] \o (IF srcTree.subgroups[g] # <<>>
                            THEN srcTree.projects[Head(srcTree.subgroups[g])]
                            ELSE <<>>)

\* Line 287: source_group.projects.list(all=True): the group's direct projects.
ListedProjects(g) == srcTree.projects[g]

\* Lines 287-296: list the projects, zero the tally, submit one migrate_project per
\* project to the executor.
ListProjects ==
    /\ Running
    /\ Top.pc = "list_projects"
    /\ queue' = ListedProjects(Top.g)
    /\ worker' = [p \in ProjIds |->
                    IF p \in Range(ListedProjects(Top.g))
                    THEN [IdleWorker EXCEPT !.pc = "queued"] ELSE worker[p]]
    /\ success_count' = [success_count EXCEPT ![Top.g] = 0]
    /\ failed_count' = [failed_count EXCEPT ![Top.g] = 0]
    /\ stack' = [stack EXCEPT ![Len(stack)] = [@ EXCEPT !.pc = "collect"]]
    /\ UNCHANGED <<cfgVars, tgtVars, logged, runState, visited, counted, starts,
                   runVars>>

ListProjectsFail ==
    /\ Running
    /\ Top.pc = "list_projects"
    /\ runState' = "exit"
    /\ UNCHANGED <<cfgVars, tgtVars, tallyVars, stack, visited, queue, counted,
                   worker, starts, runVars>>

\* Line 303: if result.
CountsAsSuccess(res) == res = "object"

\* Mutant of AfterFuture: the exception of a worker that raised is not caught.
AfterFuture_Propagates(res) == IF res = "raised" THEN "exit" ELSE "running"

\* Mutant of AfterFuture: the run is given up at the first project that failed.
AfterFuture_FailFast(res) == IF res = "None" THEN "exit" ELSE "running"

\* Lines 301-309: future.result() of a worker that raised is caught by the handler of
\* line 307; the loop goes on.
AfterFuture(res) == "running"

\* The future of a worker that has ended and whose result the loop has taken: the
\* worker's locals are gone, the future keeps what it returned.
Collected(w) == [IdleWorker EXCEPT !.pc = "collected", !.result = w.result]

\* Lines 299-309: one turn of the as_completed loop, for the finished future of p.
Collect(p) ==
    /\ Running
    /\ Top.pc = "collect"
    /\ p \in Range(ListedProjects(Top.g))
    /\ worker[p].pc = "done"
    /\ counted[p] = 0
    /\ runState' = AfterFuture(worker[p].result)
    /\ IF runState' = "running"
       THEN /\ counted' = [counted EXCEPT ![p] = @ + 1]
            /\ worker' = [worker EXCEPT ![p] = Collected(@)]
            /\ success_count' = [success_count EXCEPT ![Top.g] =
                                    IF CountsAsSuccess(worker[p].result) THEN @ + 1 ELSE @]
            /\ failed_count' = [failed_count EXCEPT ![Top.g] =
                                    IF CountsAsSuccess(worker[p].result) THEN @ ELSE @ + 1]
       ELSE UNCHANGED <<counted, worker, success_count, failed_count>>
    /\ UNCHANGED <<cfgVars, tgtVars, logged, stack, visited, queue, starts,
                   runVars>>

\* Mutant of BatchDrained: the batch is left once every worker has been started.
BatchDrained_NoJoin(g) ==
    \A p \in Range(ListedProjects(g)) : worker[p].pc # "queued"

\* Lines 294-310: the as_completed loop has handled every future and the with block
\* has joined the pool.
BatchDrained(g) ==
    \A p \in Range(ListedProjects(g)) : worker[p].pc = "collected" /\ counted[p] > 0

\* Line 312: source_group.subgroups.list(all=True).
ListSubgroups ==
    /\ Running
    /\ Top.pc = "collect"
    /\ BatchDrained(Top.g)
    /\ stack' = [stack EXCEPT ![Len(stack)] =
                    [@ EXCEPT !.pc = "recurse", !.subs = srcTree.subgroups[Top.g]]]
    /\ UNCHANGED <<cfgVars, tgtVars, tallyVars, runState, visited, queue, counted,
                   worker, starts, runVars>>

ListSubgroupsFail ==
    /\ Running
    /\ Top.pc = "collect"
    /\ BatchDrained(Top.g)
    /\ runState' = "exit"
    /\ UNCHANGED <<cfgVars, tgtVars, tallyVars, stack, visited, queue, counted,
                   worker, starts, runVars>>

\* Lines 315-318: migrate_group(source_gl, target_gl, subgroup_path, ...).
Recurse ==
    /\ Running
    /\ Top.pc = "recurse"
    /\ Top.subs # <<>>
    /\ stack' = Append([stack EXCEPT ![Len(stack)] = [@ EXCEPT !.subs = Tail(@)]],
                       NewFrame(Head(Top.subs)))
    /\ visited' = [visited EXCEPT ![Head(Top.subs)] = @ + 1]
    /\ UNCHANGED <<cfgVars, tgtVars, tallyVars, runState, queue, counted, worker,
                   starts, runVars>>

\* Line 320, then the return; the return of the outermost call ends the run
\* (line 340).
LogTally ==
    /\ Running
    /\ Top.pc = "recurse"
    /\ Top.subs = <<>>
    /\ logged' = [logged EXCEPT ![Top.g] = <<success_count[Top.g], failed_count[Top.g]>>]
    /\ stack' = SubSeq(stack, 1, Len(stack) - 1)
    /\ runState' = IF Len(stack) = 1 THEN "done" ELSE "running"
    /\ UNCHANGED <<cfgVars, tgtVars, success_count, failed_count, visited, queue,
                   counted, worker, starts, runVars>>

\* The script is run again on the same source and target: main() starts over, and
\* nothing but the target instance is carried over.
Rerun ==
    /\ runState = "done"
    /\ run = "first"
    /\ run' = "second"
    /\ migratedBefore' = {p \in ProjIds : worker[p].result = "object"}
    /\ runState' = "running"
    /\ stack' = <<NewFrame(RootGroup)>>
    /\ success_count' = [g \in Groups |-> 0]
    /\ failed_count' = [g \in Groups |-> 0]
    /\ logged' = [g \in Groups |-> <<>>]
    /\ visited' = [g \in Groups |-> IF g = RootGroup THEN 1 ELSE 0]
    /\ queue' = <<>>
    /\ counted' = [p \in ProjIds |-> 0]
    /\ worker' = [p \in ProjIds |-> IdleWorker]
    /\ starts' = [p \in ProjIds |-> 0]
    /\ UNCHANGED <<cfgVars, tgtVars>>

DriverStep ==
    \/ GetSourceGroup
    \/ ResolveLookup
    \/ ResolveCreate
    \/ ListProjects
    \/ \E p \in ProjIds : Collect(p)
    \/ ListSubgroups
    \/ Recurse
    \/ LogTally

DriverFault ==
    \/ GetSourceGroupFail
    \/ ResolveLookupGetError
    \/ ResolveLookupFail
    \/ ResolveCreateFail
    \/ ListProjectsFail
    \/ ListSubgroupsFail

Next ==
    \/ DriverStep
    \/ DriverFault
    \/ \E p \in ProjIds : WorkerStep(p)

Spec == Init /\ [][Next]_vars

\* A run whose export artifacts are at or above the threshold of line 221 and whose
\* --timeout is below or above the 120 seconds of line 223.
InitTimeout ==
    InitWith(BOOLEAN, {MaxWorkers}, {DefaultTimeout, 300}, {SmallTree}, {FileSizes},
             {AlphaTarget({"svc1", "core"})}, TRUE)

SpecTimeout == InitTimeout /\ [][Next]_vars

\* The run when every call the driver itself makes answers: the pool threads and the
\* main thread all get to run, and a job's status is final after MaxPolls refreshes.
NextLive ==
    \/ DriverStep
    \/ \E p \in ProjIds : WorkerStep(p)

InitLive ==
    InitWith(BOOLEAN, {MaxWorkers}, {DefaultTimeout}, {FullTree},
             {{LargeThresholdMB * BytesPerMB + 1}}, {AlphaTarget({"svc1", "core"})},
             FALSE)

SpecLive == InitLive /\ [][NextLive]_vars /\ WF_vars(NextLive)

\* The script run twice with overwrite=false, every API call answering: with
\* overwrite=false no delete is ever issued.
NextRerun ==
    \/ DriverStep
    \/ \E p \in ProjIds :
          \/ StartWorker(p)
          \/ CheckName(p)
          \/ FetchSource(p)
          \/ CheckPath(p)
          \/ ExportCreate(p)
          \/ ExportRefresh(p)
          \/ ExportPoll(p)
          \/ Download(p)
          \/ Import(p)
          \/ Refetch(p)
          \/ ImportLoopTest(p)
          \/ ImportPoll(p)
    \/ Rerun

InitRerun ==
    InitWith({FALSE}, {MaxWorkers}, {DefaultTimeout}, {SmallTree},
             {{LargeThresholdMB * BytesPerMB + 1}}, {EmptyTarget, AlphaTarget({"svc1", "core"})},
             FALSE)

SpecRerun == InitRerun /\ [][NextRerun]_vars

(* ------------------------------------------------------------------ *)
(* The claims                                                         *)
(* ------------------------------------------------------------------ *)

\* Submitted to the executor and not yet handled by the as_completed loop.
InBatch(p) == worker[p].pc \notin {"idle", "collected"}

\* The groups of the source tree under g, g included.
RECURSIVE TreeGroups(_)
TreeGroups(g) == {g} \cup UNION {TreeGroups(c) : c \in Range(srcTree.subgroups[g])}

\* C1: when the as_completed loop handles the future of a worker that ended SKIPPED
\* (target exists, overwrite false), neither success_count nor failed_count changes.
C1_SkipLeavesTally ==
    [][\A p \in ProjIds :
          (/\ worker[p].pc = "done"
           /\ worker[p].outcome = "SKIPPED"
           /\ worker'[p].pc = "collected")
          => (success_count' = success_count /\ failed_count' = failed_count)]_vars

\* C2: whatever call of the worker fails, migrate_project returns (None) and never
\* raises.
C2_NeverRaises == \A p \in ProjIds : worker[p].result # "raised"

\* C4: at most max_workers migrate_project invocations are active at the same time.
C4_AtMostKActive == Cardinality(ActiveWorkers) <= max_workers

\* k workers are active and a further project of the group waits in the queue.
C4_Witness ==
    /\ max_workers > 1
    /\ Cardinality(ActiveWorkers) = max_workers
    /\ queue # <<>>
    /\ Len(srcTree.projects[Top.g]) > max_workers

\* C5: while a project of a group is submitted and its future not yet handled, the
\* running migrate_group call is that group's and is in its batch: no subgroup has
\* been entered, and no two groups have workers at the same time.
C5_DepthFirst ==
    \A p \in ProjIds :
        InBatch(p) => /\ stack # <<>>
                      /\ Top.g = ProjGroup(p)
                      /\ Top.pc = "collect"

\* A worker of a subgroup is active after the whole batch of its parent was handled.
C5_Witness ==
    /\ Len(stack) = 2
    /\ \E p \in ProjIds : Active(p) /\ ProjGroup(p) = Top.g
    /\ \A q \in Range(srcTree.projects[RootGroup]) : worker[q].pc = "collected"

\* C6: after a complete run every group of the tree was entered once, every project
\* was handed to a worker once and counted once, and the tally logged for a group
\* adds up to the number of its direct projects.
C6_TreeCoverage ==
    /\ \A p \in ProjIds : starts[p] <= 1 /\ counted[p] <= 1
    /\ runState = "done" =>
          \A g \in Groups :
              IF g \in TreeGroups(RootGroup)
              THEN /\ visited[g] = 1
                   /\ logged[g] # <<>>
                   /\ logged[g][1] + logged[g][2] = Len(srcTree.projects[g])
                   /\ \A p \in Range(srcTree.projects[g]) :
                         starts[p] = 1 /\ counted[p] = 1
              ELSE visited[g] = 0 /\ logged[g] = <<>>

\* A complete run in which every project migrated: 3/0, 1/0 and 1/0.
C6_Witness ==
    /\ runState = "done"
    /\ \A g \in Groups : logged[g] = <<Len(srcTree.projects[g]), 0>>
    /\ \A p \in ProjIds : worker[p].result = "object"

\* C8: during the import call the timeout of the worker's target session is
\* max(original, 120) when the artifact is larger than 200 MB and the original
\* otherwise; at every other moment, also after the import returned or raised and
\* when the worker has returned, it is the original.
C8_TimeoutScoped ==
    \A p \in ProjIds :
        worker[p].session =>
            IF worker[p].pc = "import"
            THEN worker[p].timeout =
                    IF worker[p].file_size > LargeThresholdMB * BytesPerMB
                    THEN (IF timeout0 >= LargeTimeout THEN timeout0 ELSE LargeTimeout)
                    ELSE timeout0
            ELSE worker[p].timeout = timeout0

\* The import of a large artifact has returned, its timeout having been raised from
\* 30 to 120, and the worker goes on with the original timeout.
C8_Witness ==
    \E p \in ProjIds :
        /\ worker[p].pc \in {"refetch", "refetched", "import_poll"}
        /\ worker[p].file_size > LargeThresholdMB * BytesPerMB
        /\ timeout0 < LargeTimeout
        /\ worker[p].timeout = timeout0

\* C9: every API call of a worker goes through a session the worker built itself.
C9_OwnSessionsOnly ==
    \A p \in ProjIds : Active(p) => CallSession(worker[p]) = "own"

\* C10: the future of a worker that raised adds one to failed_count and nothing to
\* success_count, the run goes on, a run never ends while a submitted worker is
\* unhandled, and the batch is left only with every future handled.
C10_RaiseIsCounted ==
    /\ [][\A p \in ProjIds :
             (/\ worker[p].pc = "done"
              /\ worker[p].result = "raised"
              /\ worker'[p].pc # "done")
             => /\ failed_count' = [failed_count EXCEPT ![ProjGroup(p)] = @ + 1]
                /\ success_count' = success_count
                /\ counted'[p] = 1
                /\ runState' = "running"]_vars
    /\ [](\A p \in ProjIds : InBatch(p) => runState = "running")
    /\ [](\A i \in 1..Len(stack) :
             stack[i].pc = "recurse" =>
                 \A p \in Range(srcTree.projects[stack[i].g]) : counted[p] = 1)

\* A worker has raised while another worker of its batch runs and a third waits.
C10_Witness ==
    \E p, q, r \in ProjIds :
        /\ worker[p].pc = "collected" /\ worker[p].result = "raised"
        /\ failed_count[ProjGroup(p)] >= 1
        /\ Active(q) /\ ProjGroup(q) = ProjGroup(p)
        /\ worker[r].pc = "queued" /\ ProjGroup(r) = ProjGroup(p)

\* The projects listed with p in its group, p excluded.
Siblings(p) == Range(srcTree.projects[ProjGroup(p)]) \ {p}

\* C3: once the export of a project has failed, every other project of its group
\* comes to be handled by the as_completed loop (it ended and was counted) and
\* migrate_group comes to be called for every direct subgroup of the group.
C3_ExportFailureIsolated ==
    \A p \in ProjIds :
        (worker[p].pc = "done" /\ worker[p].reason = "export_failed")
        ~> (/\ \A q \in Siblings(p) : counted[q] = 1
            /\ \A c \in Range(srcTree.subgroups[ProjGroup(p)]) : visited[c] = 1)

\* The export of a project has failed while a sibling is still running and another
\* still waits, in a group that has subgroups.
C3_Witness ==
    \E p \in ProjIds :
        /\ worker[p].pc = "done" /\ worker[p].reason = "export_failed"
        /\ \E q \in Siblings(p) : Active(q)
        /\ \E r \in Siblings(p) : worker[r].pc = "queued"
        /\ srcTree.subgroups[ProjGroup(p)] # <<>>

SameCall == stack # <<>> /\ Len(stack') = Len(stack)

\* C11 as claimed: every target group the resolver creates gets the visibility of
\* the top-level source group of the run.
C11_TopLevelVisibility ==
    [][\A x \in Prefixes :
          (tgtVis[x] = "absent" /\ tgtVis'[x] # "absent")
          => tgtVis'[x] = SrcVisibility(RootGroup)]_vars

\* C11 as amended: every target group the resolver creates gets the visibility of
\* the source group of the migrate_group call that creates it: the top-level group
\* in the first call, the subgroup being processed in a recursive call.
C11_CurrentGroupVisibility ==
    [][\A x \in Prefixes :
          (tgtVis[x] = "absent" /\ tgtVis'[x] # "absent")
          => /\ stack # <<>>
             /\ x = CurrentPath(Top)
             /\ tgtVis'[x] = SrcVisibility(Top.g)]_vars

\* The first call created team and team/alpha as private, and the call for
\* team/alpha/beta (internal at the source) created its group as internal.
C11_Witness ==
    /\ tgtVis[<<"team">>] = SrcVisibility(RootGroup)
    /\ tgtVis[<<"team", "alpha">>] = SrcVisibility(RootGroup)
    /\ tgtVis[<<"team", "alpha", "beta">>] = SrcVisibility(2)
    /\ SrcVisibility(2) # SrcVisibility(RootGroup)

\* C12: the resolver goes on to a create call for a prefix only when the lookup
\* found no group at that prefix; a lookup that fails otherwise creates nothing.
C12_CreateOnlyWhenNotFound ==
    [][IF SameCall
       THEN (Top.pc = "resolve" /\ Top'.pc = "create")
            => tgtVis[CurrentPath(Top)] = "absent"
       ELSE TRUE]_vars

\* C13: an error of the resolver or of a listing call in the call for a subgroup
\* does not end the run: the run ends early only from the call for the top-level
\* group, or in get_source_group.
C13_SubtreeOnly ==
    runState = "exit" => (Len(stack) = 1 \/ Top.pc = "get_source")

\* What a check decided: delete the project found, go on, skip or fail.
Decision(w) ==
    CASE w.pc \in {"del_name", "del_path"} -> "delete"
      [] w.pc \in {"fetch", "export"} -> "proceed"
      [] w.pc = "done" -> w.outcome

\* C14: for a worker in the check by path, every lookup result and every delete
\* result gives the decision the check by name gives for it.
C14_PathCheckLikeNameCheck ==
    \A p \in ProjIds :
        /\ worker[p].pc = "check_path" =>
              \A r \in LookupResults(ProjGroup(p), ProjPath(p)) :
                  Decision(AfterCheckPath(worker[p], r, p))
                      = Decision(AfterCheckName(worker[p], r, p))
        /\ worker[p].pc = "del_path" =>
              \A ok \in BOOLEAN :
                  Decision(AfterDeleteByPath(worker[p], ok))
                      = Decision(AfterDeleteByName(worker[p], ok))

\* C15 as claimed: once the dict's project was refetched the import counts as
\* finished: the worker ends MIGRATED without entering the polling loop.
C15_RefetchedIsFinished ==
    [][\A p \in ProjIds :
          (worker[p].pc = "refetched" /\ worker'[p].pc # "refetched")
          => worker'[p].pc = "done" /\ worker'[p].outcome = "MIGRATED"]_vars

\* C15 as amended: the refetched object goes through the loop of line 262 like any
\* other: the worker ends MIGRATED at once only if the object has no import_status
\* or the status is finished, and otherwise polls it (and can then end FAILED).
C15_RefetchedIsPolled ==
    [][\A p \in ProjIds :
          (worker[p].pc = "refetched" /\ worker'[p].pc # "refetched")
          => IF worker[p].import_status \in {"finished", "absent"}
             THEN worker'[p].pc = "done" /\ worker'[p].outcome = "MIGRATED"
             ELSE /\ worker'[p].pc = "import_poll"
                  /\ worker'[p].handle = "shared"
                  /\ worker'[p].import_status = worker[p].import_status]_vars

\* A worker polls the object it refetched and has seen a status that is not final.
C15_Witness ==
    \E p \in ProjIds :
        /\ worker[p].pc = "import_poll"
        /\ worker[p].handle = "shared"
        /\ worker[p].polls >= 1

\* C16: with overwrite=true a worker that found its project at the target and
\* deleted it, and that ends MIGRATED, leaves the project it imported at the path
\* it imported into.
C16_MigratedIsPresent ==
    [][overwrite =>
          \A p \in ProjIds :
              (/\ worker[p].pc # "done"
               /\ worker[p].existing_project # 0
               /\ worker'[p].pc = "done"
               /\ worker'[p].outcome = "MIGRATED")
              => target'[ProjGroup(p)][ProjPath(p)] = p]_vars

\* C17: a worker is past the export loop only with the status finished seen; a
\* worker that has seen failed is in the loop, has downloaded and imported nothing,
\* and its next step ends it FAILED.
C17_DownloadOnlyWhenFinished ==
    /\ [](\A p \in ProjIds :
             /\ worker[p].pc \in {"download", "import", "refetch", "refetched",
                                  "import_poll"}
                => worker[p].export_status = "finished"
             /\ worker[p].export_status = "failed"
                => /\ worker[p].pc = "export_poll"
                   /\ worker[p].file_size = 0 /\ worker[p].imports = 0)
    /\ [][\A p \in ProjIds :
             (worker[p].export_status = "failed" /\ worker'[p] # worker[p])
             => /\ worker'[p].pc = "done"
                /\ worker'[p].outcome = "FAILED"
                /\ worker'[p].imports = 0]_vars

\* A worker downloads after it saw a status that was not final and then finished,
\* while the export of another project has failed.
C17_Witness ==
    /\ \E p \in ProjIds :
          /\ worker[p].pc = "download"
          /\ worker[p].export_status = "finished"
          /\ worker[p].polls >= 1
    /\ \E q \in ProjIds :
          worker[q].pc = "done" /\ worker[q].reason = "export_failed"

\* C18: a target project disappears only by the delete of the worker whose source
\* project has the path of that target project.
C18_DeletesOwnPathOnly ==
    [][\A g \in Groups : \A x \in Paths :
          (target[g][x] # 0 /\ target'[g][x] = 0)
          => \E p \in ProjIds :
                /\ ProjGroup(p) = g /\ ProjPath(p) = x
                /\ worker[p].pc \in {"del_name", "del_path"}
                /\ worker'[p].pc \notin {"del_name", "del_path"}]_vars

\* C19: with overwrite=false no worker is ever about to delete, a target project is
\* never removed or replaced, and a worker that ended SKIPPED created no export job.
C19_NoDeleteWithoutOverwrite ==
    /\ [](~overwrite =>
            \A p \in ProjIds :
                /\ worker[p].pc \notin {"del_name", "del_path"}
                /\ (worker[p].pc = "done" /\ worker[p].outcome = "SKIPPED")
                   => worker[p].exports = 0 /\ worker[p].imports = 0)
    /\ [][~overwrite =>
            \A g \in Groups : \A x \in Paths :
                target[g][x] # 0 => target'[g][x] = target[g][x]]_vars

\* With overwrite=false a worker ended SKIPPED on a project that was there before
\* the run and still is, while the worker of a sibling is at its check by path.
C19_Witness ==
    /\ ~overwrite
    /\ \E p \in ProjIds :
          /\ worker[p].pc = "done" /\ worker[p].outcome = "SKIPPED"
          /\ target[ProjGroup(p)][ProjPath(p)] = PreId(ProjPath(p))
    /\ \E q \in ProjIds : worker[q].pc = "check_path"

\* C20: when every call answers and every job comes to a final status, the run
\* ends: every project of the tree was handled and the tally of the root group was
\* logged.  A polling loop is left only for the download (export finished) or by
\* the end of the worker.
C20_Terminates ==
    /\ <>(/\ runState = "done"
          /\ logged[RootGroup] # <<>>
          /\ \A g \in TreeGroups(RootGroup) :
                \A p \in Range(srcTree.projects[g]) : counted[p] = 1)
    /\ [][\A p \in ProjIds :
             /\ (worker[p].pc = "export_poll" /\ worker'[p].pc # "export_poll")
                => \/ worker'[p].pc = "download" /\ worker'[p].export_status = "finished"
                   \/ worker'[p].pc = "done"
             /\ (worker[p].pc = "import_poll" /\ worker'[p].pc # "import_poll")
                => worker'[p].pc = "done"]_vars

\* The run has ended with the root tally logged, one project of the root group
\* counted as migrated and another as failed.
C20_Witness ==
    /\ runState = "done"
    /\ logged[RootGroup] # <<>>
    /\ logged[RootGroup][1] >= 1
    /\ logged[RootGroup][2] >= 1

====
